---- MODULE Spec2Model ----
(***************************************************************************)
(* State-machine model of the static HTTPS file server.                    *)
(*                                                                         *)
(* Two request pipelines exist in the repository and both are modelled:    *)
(*   variant = "handle"        RequestHandler.handle  (app.ts wiring)      *)
(*   variant = "handleRequest" StaticHttpServer.handleRequest (server.js)  *)
(* A process runs exactly one of them; Init picks which.                   *)
(*                                                                         *)
(* JavaScript runs one job at a time: `running` is the request whose       *)
(* synchronous job owns the thread.  Between two file-system calls of one  *)
(* job no other job runs, but the disk (changed by other processes) and    *)
(* unreferenced weakly-held buffers (reclaimed by the collector) may       *)
(* change.  A buffer dereferenced or wrapped in a WeakRef during a job is  *)
(* kept alive until that job ends (`keptAlive`).                           *)
(*                                                                         *)
(* File content is abstracted as a version tag and a size: byte o of       *)
(* version v is the pair (v, o), so a run of bytes is a segment            *)
(* [src, off, len].                                                        *)
(***************************************************************************)
EXTENDS Integers, Sequences, FiniteSets, TLC

\* ---------------------------------------------------------------- bounds
NReq == 2
MaxMut == 1

\* ------------------------------------------------------ program constants
Limb == 65536
chunkSize == 65536
HSTS_HEADER == "max-age=63072000; includeSubDomains; preload"

Reqs == 1..NReq

\* ------------------------------------------------------------ file system
Absent == [kind |-> "absent", ver |-> "", size |-> 0]
Dir == [kind |-> "dir", ver |-> "", size |-> 4096]
File(v, s) == [kind |-> "file", ver |-> v, size |-> s]

wwwRoot == <<"app", "public">>

\* path.join: concatenate, then resolve ".." segments (never above the root
\* of an absolute path).
RECURSIVE normalize(_, _)
normalize(acc, rest) ==
  IF rest = <<>> THEN acc
  ELSE IF Head(rest) = ".."
       THEN normalize(IF acc = <<>> THEN acc ELSE SubSeq(acc, 1, Len(acc) - 1),
                      Tail(rest))
       ELSE normalize(Append(acc, Head(rest)), Tail(rest))

join(a, b) == normalize(<<>>, a \o b)

\* A URL is its sequence of path segments; "/" is the empty sequence.
RootUrl == <<>>
HealthUrl == <<"api", "health">>
Urls == {RootUrl, <<"index.html">>, HealthUrl, <<"docs">>, <<"..", "secret.txt">>}

\* A resolver that drops ".." segments, confining every URL to wwwRoot.
resolvePath_confined(url) ==
  join(wwwRoot, IF url = RootUrl THEN <<"index.html">>
                ELSE SelectSeq(url, LAMBDA x : x # ".."))
\* path.join(this.wwwRoot, url === '/' ? 'index.html' : url || '')
resolvePath(url) ==
  join(wwwRoot, IF url = RootUrl THEN <<"index.html">> ELSE url)

Paths == {resolvePath(u) : u \in Urls}
IndexPath == resolvePath(RootUrl)
HealthPath == resolvePath(HealthUrl)
DocsPath == resolvePath(<<"docs">>)
SecretPath == resolvePath(<<"..", "secret.txt">>)

\* Contents other processes may give a path.
Contents(p) ==
  IF p = IndexPath THEN {File("i1", 65537), File("i2", 0)}
  ELSE IF p = HealthPath THEN {File("h1", 2)}
  ELSE IF p = SecretPath THEN {File("s1", 1)}
  ELSE {}

Mutable == {IndexPath}

exists_always(d, p) == TRUE
exists(d, p) == d[p].kind # "absent"

\* ---------------------------------------------------------- RequestCounter
\* The Uint32Array cell, held as two 16-bit limbs: its value is
\* hi * Limb + lo, in 0 .. 2^32 - 1.
U32(h, l) == [hi |-> h, lo |-> l]
Zero == U32(0, 0)

\* Atomics.add(counter, 0, 1): one indivisible add, wrapping at 2^32.
\* A counter that sticks at its largest value instead of wrapping.
increment_saturating(c) ==
  IF c.hi = Limb - 1 /\ c.lo = Limb - 1 THEN c
  ELSE IF c.lo + 1 < Limb THEN U32(c.hi, c.lo + 1)
  ELSE U32(c.hi + 1, 0)
increment_lost(c) == c
increment(c) ==
  IF c.lo + 1 < Limb THEN U32(c.hi, c.lo + 1)
  ELSE U32((c.hi + 1) % Limb, 0)

\* Atomics.load(counter, 0)
value_zero(c) == Zero
value(c) == c

\* c + n modulo 2^32, for a small n.
plus(c, n) ==
  LET l == c.lo + n IN U32((c.hi + l \div Limb) % Limb, l % Limb)

\* Number.prototype.toString(): decimal digits, most significant first.
Div10(c) ==
  LET t == (c.hi % 10) * Limb + c.lo IN U32(c.hi \div 10, t \div 10)
Mod10(c) == ((c.hi % 10) * Limb + c.lo) % 10

RECURSIVE toString(_)
toString(c) ==
  IF c.hi = 0 /\ c.lo < 10 THEN <<c.lo>>
  ELSE Append(toString(Div10(c)), Mod10(c))

\* The number a decimal digit string denotes (what a client reads back).
RECURSIVE parseDecimal(_)
parseDecimal(s) ==
  IF Len(s) = 0 THEN Zero
  ELSE LET h == parseDecimal(SubSeq(s, 1, Len(s) - 1))
           l == h.lo * 10 + s[Len(s)]
       IN U32(h.hi * 10 + l \div Limb, l % Limb)

\* --------------------------------------------------------------- FileCache
NoEntry == [state |-> "none", ver |-> "", size |-> 0]
Reclaimed == [state |-> "reclaimed", ver |-> "", size |-> 0]
Live(data) == [state |-> "live", ver |-> data.ver, size |-> data.size]

\* get: cache.get(filePath)?.deref(); NoEntry stands for undefined.
get(c, p) == IF c[p].state = "live" THEN c[p] ELSE NoEntry
Truthy(b) == b.state = "live"

\* A set that stores nothing.
set_noop(c, p, data) == c
set_all(c, p, data) == [x \in DOMAIN c |-> Live(data)]
set(c, p, data) == [c EXCEPT ![p] = Live(data)]

\* ---------------------------------------------------------------- response
Seg(s, o, l) == [src |-> s, off |-> o, len |-> l]
NoChunk == Seg("", 0, 0)
TextOK == Seg("OK", 0, 2)
TextNotFound == Seg("Not Found", 0, 9)
TextError == Seg("Internal Server Error", 0, 21)
BufferSeg(b) == Seg(b.ver, 0, b.size)

writeHead(q, status, ctype) ==
  IF q.headersSent
  THEN [q EXCEPT !.heads = @ + 1]
  ELSE [q EXCEPT !.status = status, !.ctype = ctype,
                 !.headersSent = TRUE, !.heads = @ + 1]

write(q, seg) == [q EXCEPT !.body = Append(@, seg)]
end(q, segs) == [q EXCEPT !.body = @ \o segs, !.ended = TRUE]

\* ---------------------------------------------------- chunked stream reads
\* The chunk count rounded down instead of up.
totalChunks_floor(size) == size \div chunkSize
\* Math.ceil(stats.size / chunkSize)
totalChunks(size) == (size + chunkSize - 1) \div chunkSize

Min(a, b) == IF a < b THEN a ELSE b
Max(a, b) == IF a > b THEN a ELSE b

\* fs.readSync(fd, buffer, 0, chunkSize, i * chunkSize) and subarray(0, n):
\* the bytes of the file as it is now, from offset i * chunkSize.
readSync_zero(f, i) == Seg(f.ver, 0, Max(0, Min(chunkSize, f.size)))
readSync(f, i) ==
  Seg(f.ver, i * chunkSize, Max(0, Min(chunkSize, f.size - i * chunkSize)))

\* ----------------------------------------------------------------- startup
\* CertificateService.generate: a fresh RSA key pair and a certificate
\* signed with it, both as PEM text; every call makes another pair.
Keys == {"keyA", "keyB"}
generate(k) == [privateKey |-> <<"PRIVATE KEY", k>>,
                certificate |-> <<"CERTIFICATE", k>>]
NoCert == [privateKey |-> <<>>, certificate |-> <<>>]

\* Key and certificate handed over in each other's place.
options_swapped(certOptions) ==
  [key |-> certOptions.certificate, cert |-> certOptions.privateKey]
\* The options of https.createServer.
options(certOptions) ==
  [key |-> certOptions.privateKey, cert |-> certOptions.certificate]
NoServer == [key |-> <<>>, cert |-> <<>>]

\* ServerFactory.create
create(opts) == opts

\* The process before app.start, and after a start with key k.
Starting ==
  [phase |-> "starting", generated |-> NoCert, server |-> NoServer,
   genCalls |-> 0]
Up(k) ==
  [phase |-> "listening", generated |-> generate(k),
   server |-> create(options(generate(k))), genCalls |-> 1]

\* ------------------------------------------------------------------- state
VARIABLES
  boot,         \* startup: phase, generated credentials, server options
  variant,      \* which pipeline this process runs
  urls,         \* the URLs clients request in this run
  counter,      \* the Uint32Array cell
  counter0,     \* history: the cell's value when the model starts
  disk,         \* path -> Absent | Dir | File
  cache,        \* path -> NoEntry | Reclaimed | Live buffer
  keptAlive,    \* paths whose buffer the current job keeps alive
  running,      \* request whose synchronous job is executing, 0 if none
  req,          \* per request: position, response and stream state
  lastSet,      \* history: argument of the latest FileCache.set per path
  lastFullRead, \* history: result of the latest successful readFileSync per path
  muts          \* disk mutations so far

vars == <<boot, variant, urls, counter, counter0, disk, cache, keptAlive, running, req,
          lastSet, lastFullRead, muts>>

IdleReq ==
  [pc |-> "idle", task |-> "none", url |-> RootUrl, path |-> <<>>,
   status |-> 0, ctype |-> "", hsts |-> "", xcount |-> <<>>,
   headersSent |-> FALSE, heads |-> 0, body |-> <<>>, ended |-> FALSE,
   total |-> 0, i |-> 0, fd |-> "none", orphan |-> Absent, chunk |-> NoChunk,
   logged |-> FALSE, populated |-> FALSE, hit |-> FALSE,
   diskAtStart |-> Absent, setAtStart |-> Absent, mutated |-> FALSE,
   threw |-> FALSE, abandoned |-> FALSE]

\* The state after construction, for a pipeline v, requested URLs us, a
\* counter value c0 and a set of initial contents of the index file.
InitFrom(b, v, us, c0, index0, health0) ==
  /\ boot = b
  /\ variant = v
  /\ urls = us
  /\ counter = c0
  /\ counter0 = counter
  /\ disk \in {d \in [Paths -> {Absent, Dir} \cup index0 \cup health0
                                   \cup UNION {Contents(p) : p \in Paths}] :
                 /\ d[IndexPath] \in index0
                 /\ d[HealthPath] \in health0
                 /\ d[DocsPath] = Dir
                 /\ d[SecretPath] \in Contents(SecretPath)}
  /\ cache = [p \in Paths |-> NoEntry]
  /\ keptAlive = {}
  /\ running = 0
  /\ req = [r \in Reqs |-> IdleReq]
  /\ lastSet = [p \in Paths |-> Absent]
  /\ lastFullRead = [p \in Paths |-> Absent]
  /\ muts = 0

\* The same with the server already listening.
InitWith(v, us, c0, index0, health0) ==
  InitFrom(Up("keyA"), v, us, c0, index0, health0)

SiteUrls == {RootUrl, <<"index.html">>, HealthUrl, <<"docs">>}
KindUrls == {RootUrl, HealthUrl, <<"docs">>}
AnyIndex == {Absent} \cup Contents(IndexPath)
NearWrap == U32(Limb - 1, Limb - 2)

\* RequestHandler.handle, counter fresh.
InitHandle == InitWith("handle", SiteUrls, Zero, AnyIndex, {Absent})
\* StaticHttpServer.handleRequest, counter fresh.
InitServer == InitWith("handleRequest", SiteUrls, Zero, AnyIndex, {Absent})
\* Either pipeline, one URL per kind of path (file, directory, health route).
Init ==
  \E v \in {"handle", "handleRequest"} :
    InitWith(v, KindUrls, Zero, AnyIndex, {Absent})
\* Either pipeline after 2^32 - 2 requests.
InitWrap ==
  \E v \in {"handle", "handleRequest"} :
    InitWith(v, KindUrls, NearWrap, {File("i1", 65537)}, {Absent})
Started(r) == req[r].pc # "idle"
nStarted == Cardinality({r \in Reqs : Started(r)})

\* The file a descriptor reads: the unlinked inode if the path was deleted
\* after the open, else whatever the path holds now.
Inode(q) == IF q.orphan.kind = "file" THEN q.orphan ELSE disk[q.path]

\* Read outcomes the environment allows: a directory always fails (EISDIR),
\* a regular file may fail with an I/O error (EIO).
ReadOutcomes(q) == IF Inode(q).kind # "file" THEN {FALSE} ELSE {TRUE, FALSE}

EndJob == running' = 0 /\ keptAlive' = {}

readFileSync(d, p) == d[p]
readFileOK(d, p) == d[p].kind = "file"

\* ------------------------------------------------------------ app.start
others == <<variant, urls, counter, counter0, disk, cache, keptAlive, running,
            req, lastSet, lastFullRead, muts>>

\* new CertificateService().generate(): a key pair and certificate, or an
\* exception that leaves app.start and ends the process.
AppGenerate ==
  /\ variant = "handle" /\ boot.phase = "starting"
  /\ \/ \E k \in Keys :
          boot' = [boot EXCEPT !.phase = "generated",
                               !.generated = generate(k),
                               !.genCalls = @ + 1]
     \/ boot' = [boot EXCEPT !.phase = "failed", !.genCalls = @ + 1]
  /\ UNCHANGED others

\* new ServerFactory().create(options), then the handler is built and
\* registered for 'request'.
AppCreate ==
  /\ variant = "handle" /\ boot.phase = "generated"
  /\ boot' = [boot EXCEPT !.phase = "created",
                          !.server = create(options(boot.generated))]
  /\ UNCHANGED others

\* server.listen
AppListen ==
  /\ variant = "handle" /\ boot.phase = "created"
  /\ boot' = [boot EXCEPT !.phase = "listening"]
  /\ UNCHANGED others

\* ------------------------------------------------ RequestHandler.handle
\* The health route never matching.
isHealth_never(u) == FALSE
\* req.url === '/api/health'
isHealth(u) == u = HealthUrl

\* First job of handle(): count, header, then /api/health, the first
\* FileCache.get, or existsSync with the 404 answer.
HandleStart(r) ==
  /\ boot.phase = "listening"
  /\ variant = "handle" /\ running = 0
  /\ req[r].pc = "idle" /\ r = nStarted + 1
  /\ \E u \in urls :
       LET c1 == increment(counter)
           p == resolvePath(u)
           q0 == [req[r] EXCEPT !.url = u, !.xcount = toString(value(c1)),
                                !.diskAtStart = disk[p],
                                !.setAtStart = lastSet[p]]
           q1 == [q0 EXCEPT !.path = p]
       IN /\ counter' = c1
          /\ IF isHealth(u)
             THEN /\ req' = [req EXCEPT ![r] =
                       [end(writeHead(q0, 200, "text/plain"), <<TextOK>>)
                          EXCEPT !.pc = "returned", !.task = "resolved"]]
                  /\ EndJob
             ELSE IF Truthy(get(cache, p))
             THEN /\ req' = [req EXCEPT ![r] = [q1 EXCEPT !.pc = "hit"]]
                  /\ running' = r
                  /\ keptAlive' = keptAlive \cup {p}
             ELSE IF exists(disk, p)
             THEN /\ req' = [req EXCEPT ![r] =
                       [writeHead(q1, 200, "text/html") EXCEPT !.pc = "stat"]]
                  /\ running' = r
                  /\ UNCHANGED keptAlive
             ELSE /\ req' = [req EXCEPT ![r] =
                       [end(writeHead(q1, 404, "text/plain"), <<TextNotFound>>)
                          EXCEPT !.pc = "returned", !.task = "resolved"]]
                  /\ EndJob
  /\ UNCHANGED <<boot, variant, urls, counter0, disk, cache, lastSet, lastFullRead, muts>>

\* Cache-hit branch: writeHead, then end() with the second FileCache.get.
HandleHit(r) ==
  /\ variant = "handle" /\ running = r /\ req[r].pc = "hit"
  /\ LET b == get(cache, req[r].path)
         q1 == writeHead(req[r], 200, "text/html")
     IN req' = [req EXCEPT ![r] =
                  [end(q1, IF Truthy(b) THEN <<BufferSeg(b)>> ELSE <<>>)
                     EXCEPT !.pc = "returned", !.task = "resolved",
                            !.hit = TRUE]]
  /\ EndJob
  /\ UNCHANGED <<boot, variant, urls, counter, counter0, disk, cache, lastSet,
                 lastFullRead, muts>>

\* readStream(): statSync; a missing file throws out of handle().
HandleStat(r) ==
  /\ variant = "handle" /\ running = r /\ req[r].pc = "stat"
  /\ IF exists(disk, req[r].path)
     THEN /\ req' = [req EXCEPT ![r] =
                 [@ EXCEPT !.total = totalChunks(disk[req[r].path].size),
                           !.pc = "open"]]
          /\ UNCHANGED <<running, keptAlive>>
     ELSE /\ req' = [req EXCEPT ![r] =
                 [@ EXCEPT !.pc = "returned", !.task = "rejected"]]
          /\ EndJob
  /\ UNCHANGED <<boot, variant, urls, counter, counter0, disk, cache, lastSet,
                 lastFullRead, muts>>

\* readStream(): openSync, then the generator is created; with no chunk to
\* read the first next() runs the finally block and completes.
HandleOpen(r) ==
  /\ variant = "handle" /\ running = r /\ req[r].pc = "open"
  /\ IF ~exists(disk, req[r].path)
     THEN /\ req' = [req EXCEPT ![r] =
                 [@ EXCEPT !.pc = "returned", !.task = "rejected"]]
          /\ EndJob
     ELSE IF req[r].total = 0
     THEN /\ req' = [req EXCEPT ![r] =
                 [@ EXCEPT !.fd = "closed", !.pc = "returned",
                           !.task = "await_done"]]
          /\ EndJob
     ELSE /\ req' = [req EXCEPT ![r] = [@ EXCEPT !.fd = "open", !.pc = "read"]]
          /\ UNCHANGED <<running, keptAlive>>
  /\ UNCHANGED <<boot, variant, urls, counter, counter0, disk, cache, lastSet,
                 lastFullRead, muts>>

\* First next() of the generator: readSync of chunk 0, then yield.
HandleRead(r) ==
  /\ variant = "handle" /\ running = r /\ req[r].pc = "read"
  /\ \E ok \in ReadOutcomes(req[r]) :
       /\ req' = [req EXCEPT ![r] =
            IF ok
            THEN [@ EXCEPT !.chunk = readSync(Inode(req[r]), req[r].i),
                           !.pc = "returned", !.task = "yielded"]
            ELSE [@ EXCEPT !.fd = "closed", !.pc = "returned",
                           !.task = "rejected"]]
  /\ EndJob
  /\ UNCHANGED <<boot, variant, urls, counter, counter0, disk, cache, lastSet,
                 lastFullRead, muts>>

\* StreamTurn with the loop bound off by one: the last chunk is never read.
StreamTurn_short(r, q1) ==
  IF q1.i + 1 < q1.total
  THEN \E ok \in ReadOutcomes(q1) :
         req' = [req EXCEPT ![r] =
              IF ok
              THEN [q1 EXCEPT !.chunk = readSync(Inode(q1), q1.i)]
              ELSE [q1 EXCEPT !.fd = "closed", !.task = "rejected"]]
  ELSE req' = [req EXCEPT ![r] =
              [q1 EXCEPT !.fd = "closed", !.task = "await_done"]]

\* One turn of the for-await loop: res.write(chunk), then the generator
\* resumes: next readSync and yield, or the finally block and completion.
StreamTurn(r, q1) ==
  IF q1.i < q1.total
  THEN \E ok \in ReadOutcomes(q1) :
         /\ req' = [req EXCEPT ![r] =
              IF ok
              THEN [q1 EXCEPT !.chunk = readSync(Inode(q1), q1.i)]
              ELSE [q1 EXCEPT !.fd = "closed", !.task = "rejected"]]
  ELSE req' = [req EXCEPT ![r] =
              [q1 EXCEPT !.fd = "closed", !.task = "await_done"]]

\* The loop writing to the response of the latest request received (as
\* if the handler kept res in a field of its single instance).
HandleResume_shared(r) ==
  /\ variant = "handle" /\ running = 0 /\ req[r].task = "yielded"
  /\ LET q1 == [req[r] EXCEPT !.i = @ + 1, !.chunk = NoChunk]
         q2 == IF q1.i < q1.total
               THEN [q1 EXCEPT !.chunk = readSync(Inode(q1), q1.i)]
               ELSE [q1 EXCEPT !.fd = "closed", !.task = "await_done"]
     IN req' = [[req EXCEPT ![r] = q2]
                  EXCEPT ![nStarted] = write(@, req[r].chunk)]
  /\ UNCHANGED <<boot, variant, urls, counter, counter0, disk, cache, keptAlive,
                 running, lastSet, lastFullRead, muts>>

HandleResume(r) ==
  /\ variant = "handle" /\ running = 0 /\ req[r].task = "yielded"
  /\ StreamTurn(r, [write(req[r], req[r].chunk)
                      EXCEPT !.i = @ + 1, !.chunk = NoChunk])
  /\ UNCHANGED <<boot, variant, urls, counter, counter0, disk, cache, keptAlive, running,
                 lastSet, lastFullRead, muts>>

\* After the loop: res.end(), readFileSync, FileCache.set.
HandleFinish(r) ==
  /\ variant = "handle" /\ running = 0 /\ req[r].task = "await_done"
  /\ LET q1 == end(req[r], <<>>)
         p == q1.path
         data == readFileSync(disk, p)
     IN IF readFileOK(disk, p)
        THEN /\ cache' = set(cache, p, data)
             /\ lastSet' = [lastSet EXCEPT ![p] = data]
             /\ lastFullRead' = [lastFullRead EXCEPT ![p] = readFileSync(disk, p)]
             /\ req' = [req EXCEPT ![r] =
                    [q1 EXCEPT !.populated = TRUE, !.task = "resolved"]]
        ELSE /\ req' = [req EXCEPT ![r] = [q1 EXCEPT !.task = "rejected"]]
             /\ UNCHANGED <<cache, lastSet, lastFullRead>>
  /\ UNCHANGED <<boot, variant, urls, counter, counter0, disk, keptAlive, running, muts>>

\* ----------------------------------------- StaticHttpServer.handleRequest
\* The catch block of handleRequest: log, and answer 500 only if no header
\* has been sent.
catch_unguarded(q) ==
  end(writeHead([q EXCEPT !.logged = TRUE], 500, "text/plain"), <<TextError>>)
catch(q) ==
  LET q1 == [q EXCEPT !.logged = TRUE]
  IN IF ~q1.headersSent
     THEN end(writeHead(q1, 500, "text/plain"), <<TextError>>)
     ELSE q1

\* First part of handleRequest(): count, both headers, the first
\* FileCache.get, or the first existsSync with the 404 answer.
HandleRequestStart(r) ==
  /\ variant = "handleRequest" /\ running = 0
  /\ req[r].pc = "idle" /\ r = nStarted + 1
  /\ \E u \in urls :
       LET c1 == increment(counter)
           p == resolvePath(u)
           q1 == [req[r] EXCEPT !.url = u, !.xcount = toString(value(c1)),
                                !.hsts = HSTS_HEADER, !.path = p,
                                !.diskAtStart = disk[p],
                                !.setAtStart = lastSet[p]]
       IN /\ counter' = c1
          /\ IF Truthy(get(cache, p))
             THEN /\ req' = [req EXCEPT ![r] = [q1 EXCEPT !.pc = "hit"]]
                  /\ running' = r
                  /\ keptAlive' = keptAlive \cup {p}
             ELSE IF exists(disk, p)
             THEN /\ req' = [req EXCEPT ![r] =
                       [writeHead(q1, 200, "text/html") EXCEPT !.pc = "exists2"]]
                  /\ running' = r
                  /\ UNCHANGED keptAlive
             ELSE /\ req' = [req EXCEPT ![r] =
                       [end(writeHead(q1, 404, "text/plain"), <<TextNotFound>>)
                          EXCEPT !.pc = "returned"]]
                  /\ EndJob
  /\ UNCHANGED <<boot, variant, urls, counter0, disk, cache, lastSet, lastFullRead,
                 muts>>

HandleRequestHit(r) ==
  /\ variant = "handleRequest" /\ running = r /\ req[r].pc = "hit"
  /\ LET b == get(cache, req[r].path)
         q1 == writeHead(req[r], 200, "text/html")
     IN req' = [req EXCEPT ![r] =
                  [end(q1, IF Truthy(b) THEN <<BufferSeg(b)>> ELSE <<>>)
                     EXCEPT !.pc = "returned", !.hit = TRUE]]
  /\ EndJob
  /\ UNCHANGED <<boot, variant, urls, counter, counter0, disk, cache, lastSet,
                 lastFullRead, muts>>

\* The second existsSync: without the file no streaming task is started.
HandleRequestExists(r) ==
  /\ variant = "handleRequest" /\ running = r /\ req[r].pc = "exists2"
  /\ req' = [req EXCEPT ![r] =
        [@ EXCEPT !.pc = IF exists(disk, req[r].path) THEN "stat" ELSE "readfile"]]
  /\ UNCHANGED <<boot, variant, urls, counter, counter0, disk, cache, keptAlive,
                 running, lastSet, lastFullRead, muts>>

\* The streaming task starts: getFileStream() runs up to its first yield
\* inside the task, so its errors reject the task and the handler goes on.
HandleRequestStat(r) ==
  /\ variant = "handleRequest" /\ running = r /\ req[r].pc = "stat"
  /\ req' = [req EXCEPT ![r] =
        IF exists(disk, req[r].path)
        THEN [@ EXCEPT !.total = totalChunks(disk[req[r].path].size),
                       !.pc = "open"]
        ELSE [@ EXCEPT !.pc = "readfile", !.task = "rejected"]]
  /\ UNCHANGED <<boot, variant, urls, counter, counter0, disk, cache, keptAlive,
                 running, lastSet, lastFullRead, muts>>

HandleRequestOpen(r) ==
  /\ variant = "handleRequest" /\ running = r /\ req[r].pc = "open"
  /\ req' = [req EXCEPT ![r] =
        IF ~exists(disk, req[r].path)
        THEN [@ EXCEPT !.pc = "readfile", !.task = "rejected"]
        ELSE IF req[r].total = 0
        THEN [@ EXCEPT !.fd = "closed", !.pc = "readfile",
                       !.task = "await_done"]
        ELSE [@ EXCEPT !.fd = "open", !.pc = "read"]]
  /\ UNCHANGED <<boot, variant, urls, counter, counter0, disk, cache, keptAlive,
                 running, lastSet, lastFullRead, muts>>

HandleRequestRead(r) ==
  /\ variant = "handleRequest" /\ running = r /\ req[r].pc = "read"
  /\ \E ok \in ReadOutcomes(req[r]) :
       req' = [req EXCEPT ![r] =
            IF ok
            THEN [@ EXCEPT !.chunk = readSync(Inode(req[r]), req[r].i),
                           !.pc = "readfile", !.task = "yielded"]
            ELSE [@ EXCEPT !.fd = "closed", !.pc = "readfile",
                           !.task = "rejected"]]
  /\ UNCHANGED <<boot, variant, urls, counter, counter0, disk, cache, keptAlive,
                 running, lastSet, lastFullRead, muts>>

\* Back in handleRequest(): readFileSync and FileCache.set, inside the try.
HandleRequestReadFile(r) ==
  /\ variant = "handleRequest" /\ running = r /\ req[r].pc = "readfile"
  /\ LET p == req[r].path
         data == readFileSync(disk, p)
     IN IF readFileOK(disk, p)
        THEN /\ cache' = set(cache, p, data)
             /\ lastSet' = [lastSet EXCEPT ![p] = data]
             /\ lastFullRead' = [lastFullRead EXCEPT ![p] = readFileSync(disk, p)]
             /\ req' = [req EXCEPT ![r] =
                    [@ EXCEPT !.populated = TRUE, !.pc = "returned"]]
        ELSE /\ req' = [req EXCEPT ![r] = [catch(@) EXCEPT !.pc = "returned"]]
             /\ UNCHANGED <<cache, lastSet, lastFullRead>>
  /\ EndJob
  /\ UNCHANGED <<boot, variant, urls, counter, counter0, disk, muts>>

HandleRequestResume(r) ==
  /\ variant = "handleRequest" /\ running = 0 /\ req[r].task = "yielded"
  /\ StreamTurn(r, [write(req[r], req[r].chunk)
                      EXCEPT !.i = @ + 1, !.chunk = NoChunk])
  /\ UNCHANGED <<boot, variant, urls, counter, counter0, disk, cache, keptAlive,
                 running, lastSet, lastFullRead, muts>>

\* The streaming task after its loop: res.end().
HandleRequestFinish(r) ==
  /\ variant = "handleRequest" /\ running = 0 /\ req[r].task = "await_done"
  /\ req' = [req EXCEPT ![r] = [end(@, <<>>) EXCEPT !.task = "resolved"]]
  /\ UNCHANGED <<boot, variant, urls, counter, counter0, disk, cache, keptAlive,
                 running, lastSet, lastFullRead, muts>>

\* ------------------------------------------------------------ environment
Touches(r, p) == Started(r) /\ ~req[r].ended /\ resolvePath(req[r].url) = p

\* Another process writes the file in place, or creates it.
DiskWrite(p, c) ==
  /\ muts < MaxMut /\ c # disk[p]
  /\ disk' = [disk EXCEPT ![p] = c]
  /\ muts' = muts + 1
  /\ req' = [r \in Reqs |->
               IF Touches(r, p) THEN [req[r] EXCEPT !.mutated = TRUE] ELSE req[r]]
  /\ UNCHANGED <<boot, variant, urls, counter, counter0, cache, keptAlive, running,
                 lastSet, lastFullRead>>

\* Another process unlinks the file; open descriptors keep the inode.
DiskDelete(p) ==
  /\ muts < MaxMut /\ disk[p].kind = "file"
  /\ disk' = [disk EXCEPT ![p] = Absent]
  /\ muts' = muts + 1
  /\ req' = [r \in Reqs |->
               LET q == IF Touches(r, p)
                        THEN [req[r] EXCEPT !.mutated = TRUE] ELSE req[r]
               IN IF q.fd = "open" /\ q.path = p /\ q.orphan.kind # "file"
                  THEN [q EXCEPT !.orphan = disk[p]] ELSE q]
  /\ UNCHANGED <<boot, variant, urls, counter, counter0, cache, keptAlive, running,
                 lastSet, lastFullRead>>

\* A collector that takes a buffer even while a job that dereferenced it
\* is still running.
Reclaim_anytime(p) ==
  /\ cache[p].state = "live"
  /\ cache' = [cache EXCEPT ![p] = Reclaimed]
  /\ UNCHANGED <<boot, variant, urls, counter, counter0, disk, keptAlive, running, req,
                 lastSet, lastFullRead, muts>>

\* The collector reclaims a weakly held buffer no job keeps alive.
Reclaim(p) ==
  /\ cache[p].state = "live" /\ p \notin keptAlive
  /\ cache' = [cache EXCEPT ![p] = Reclaimed]
  /\ UNCHANGED <<boot, variant, urls, counter, counter0, disk, keptAlive, running, req,
                 lastSet, lastFullRead, muts>>

Environment ==
  \/ \E p \in Mutable : \E c \in Contents(p) : DiskWrite(p, c)
  \/ \E p \in Mutable : DiskDelete(p)
  \/ \E p \in Paths : Reclaim(p)

\* ------------------------------------------------- a consumer of the stream
\* The async-generator protocol seen by any caller of readStream (variant
\* "readStream": statSync and openSync run in the call itself, before the
\* generator object exists) or of getFileStream (variant "getFileStream":
\* an async generator method, whose whole body runs only from the first
\* next()).  task is the generator's state: "suspendedStart",
\* "suspendedYield" or "completed".
StreamVariants == {"readStream", "getFileStream"}

\* The call: it throws when statSync finds no file.
ConsumerCall(r) ==
  /\ variant \in StreamVariants /\ req[r].pc = "idle" /\ r = nStarted + 1
  /\ \E u \in urls :
       LET p == resolvePath(u)
           q1 == [req[r] EXCEPT !.url = u, !.path = p, !.pc = "returned",
                                !.diskAtStart = disk[p]]
       IN req' = [req EXCEPT ![r] =
            IF variant = "getFileStream"
            THEN [q1 EXCEPT !.task = "suspendedStart"]
            ELSE IF ~exists(disk, p)
            THEN [q1 EXCEPT !.task = "completed", !.threw = TRUE]
            ELSE [q1 EXCEPT !.total = totalChunks(disk[p].size),
                            !.fd = "open", !.task = "suspendedStart"]]
  /\ UNCHANGED <<boot, variant, urls, counter, counter0, disk, cache, keptAlive,
                 running, lastSet, lastFullRead, muts>>

\* The generator body from its start (getFileStream only): statSync,
\* openSync, then the try block.
BodyStart(q) ==
  IF variant = "getFileStream" /\ q.task = "suspendedStart"
  THEN [q EXCEPT !.total = totalChunks(disk[q.path].size), !.fd = "open"]
  ELSE q

\* next(): the body runs to its next yield, or through the finally block
\* (closeSync) to completion, normally or with the error of readSync.
ConsumerNext(r) ==
  /\ variant \in StreamVariants
  /\ req[r].task \in {"suspendedStart", "suspendedYield"}
  /\ IF variant = "getFileStream" /\ req[r].task = "suspendedStart"
        /\ ~exists(disk, req[r].path)
     THEN req' = [req EXCEPT ![r] =
                    [@ EXCEPT !.task = "completed", !.threw = TRUE]]
     ELSE LET q1 == BodyStart(req[r])
          IN IF q1.i < q1.total
             THEN \E ok \in ReadOutcomes(q1) :
                    req' = [req EXCEPT ![r] =
                      IF ok
                      THEN [write(q1, readSync(Inode(q1), q1.i))
                              EXCEPT !.i = @ + 1, !.task = "suspendedYield"]
                      ELSE [q1 EXCEPT !.fd = "closed", !.task = "completed",
                                      !.threw = TRUE]]
             ELSE req' = [req EXCEPT ![r] =
                      [q1 EXCEPT !.fd = "closed", !.task = "completed"]]
  /\ UNCHANGED <<boot, variant, urls, counter, counter0, disk, cache, keptAlive,
                 running, lastSet, lastFullRead, muts>>

\* return(): the consumer abandons the stream.  A generator suspended at a
\* yield resumes with a return completion, so its finally block runs; one
\* that never started completes without running any of its body.
ConsumerReturn(r) ==
  /\ variant \in StreamVariants
  /\ req[r].task \in {"suspendedStart", "suspendedYield"}
  /\ req' = [req EXCEPT ![r] =
       IF req[r].task = "suspendedYield"
       THEN [@ EXCEPT !.fd = "closed", !.task = "completed", !.abandoned = TRUE]
       ELSE [@ EXCEPT !.task = "completed", !.abandoned = TRUE]]
  /\ UNCHANGED <<boot, variant, urls, counter, counter0, disk, cache, keptAlive,
                 running, lastSet, lastFullRead, muts>>


NextHandle ==
  \/ \E r \in Reqs : HandleStart(r)
  \/ \E r \in Reqs : HandleHit(r)
  \/ \E r \in Reqs : HandleStat(r)
  \/ \E r \in Reqs : HandleOpen(r)
  \/ \E r \in Reqs : HandleRead(r)
  \/ \E r \in Reqs : HandleResume(r)
  \/ \E r \in Reqs : HandleFinish(r)
  \/ Environment

NextServer ==
  \/ \E r \in Reqs : HandleRequestStart(r)
  \/ \E r \in Reqs : HandleRequestHit(r)
  \/ \E r \in Reqs : HandleRequestExists(r)
  \/ \E r \in Reqs : HandleRequestStat(r)
  \/ \E r \in Reqs : HandleRequestOpen(r)
  \/ \E r \in Reqs : HandleRequestRead(r)
  \/ \E r \in Reqs : HandleRequestReadFile(r)
  \/ \E r \in Reqs : HandleRequestResume(r)
  \/ \E r \in Reqs : HandleRequestFinish(r)
  \/ Environment

Next == NextHandle \/ NextServer

Spec == Init /\ [][Next]_vars
SpecServer == InitServer /\ [][NextServer]_vars
SpecHandle == InitHandle /\ [][NextHandle]_vars

SpecWrap == InitWrap /\ [][Next]_vars

\* RequestHandler.handle asked for "/", "/api/health" and "/../secret.txt":
\* two paths that get cached, the health route and, without an index
\* file, the 404 answer.
FrameUrls == {RootUrl, HealthUrl, <<"..", "secret.txt">>}
InitFrame == InitWith("handle", FrameUrls, Zero, AnyIndex, {Absent})
SpecFrame == InitFrame /\ [][NextHandle]_vars

\* RequestHandler.handle asked for "/", "/index.html" and "/../secret.txt".
PathUrls == {RootUrl, <<"index.html">>, <<"..", "secret.txt">>}
InitPaths == InitWith("handle", PathUrls, Zero, AnyIndex, {Absent})
SpecPaths == InitPaths /\ [][NextHandle]_vars

\* The modular process from before app.start.
InitBoot == InitFrom(Starting, "handle", KindUrls, Zero, AnyIndex, {Absent})
NextBoot == AppGenerate \/ AppCreate \/ AppListen \/ NextHandle
SpecBoot == InitBoot /\ [][NextBoot]_vars

\* RequestHandler.handle with a file at <wwwRoot>/api/health or none.
InitHealth ==
  InitWith("handle", {RootUrl, HealthUrl}, Zero, AnyIndex,
           {Absent} \cup Contents(HealthPath))
SpecHealth == InitHealth /\ [][NextHandle]_vars

NextStream ==
  \/ \E r \in Reqs : ConsumerCall(r)
  \/ \E r \in Reqs : ConsumerNext(r)
  \/ \E r \in Reqs : ConsumerReturn(r)
  \/ \E p \in Mutable : \E c \in Contents(p) : DiskWrite(p, c)
  \/ \E p \in Mutable : DiskDelete(p)

\* Either stream function, driven by consumers that may abandon it.
InitStream ==
  \E v \in StreamVariants :
    InitWith(v, {RootUrl, <<"docs">>}, Zero, AnyIndex, {Absent})
SpecStream == InitStream /\ [][NextStream]_vars

\* readStream on files of no, exactly one, one and a bit, and 3.125 chunks.
ChunkFiles ==
  {File("k0", 0), File("k1", chunkSize), File("k2", chunkSize + 1),
   File("k4", 200 * 1024)}
InitChunks == InitWith("readStream", {RootUrl}, Zero, ChunkFiles, {Absent})
\* The file is never rewritten here; it may be unlinked while it is read.
NextChunks ==
  \/ \E r \in Reqs : ConsumerCall(r)
  \/ \E r \in Reqs : ConsumerNext(r)
  \/ \E r \in Reqs : ConsumerReturn(r)
  \/ \E p \in Mutable : DiskDelete(p)
SpecChunks == InitChunks /\ [][NextChunks]_vars

\* ================================================================ claims
\* The bytes of a body: its segments with empty ones dropped and adjacent
\* ones joined.
RECURSIVE Merge(_)
Merge(b) ==
  IF b = <<>> THEN <<>>
  ELSE LET h == Head(b)
           m == Merge(Tail(b))
       IN IF h.len = 0 THEN m
          ELSE IF m # <<>> /\ m[1].src = h.src /\ m[1].off = h.off + h.len
          THEN <<Seg(h.src, h.off, h.len + m[1].len)>> \o Tail(m)
          ELSE <<h>> \o m

\* Body b is byte-identical to file content c.
BodyIs(b, c) == Merge(b) = IF c.size = 0 THEN <<>> ELSE <<Seg(c.ver, 0, c.size)>>

Returned(r) == req[r].pc = "returned"
Resolved(r) == Started(r) /\ req[r].path # <<>>
Handling(r) == Started(r) /\ req[r].pc # "hit"
Settled(r) == req[r].task \in {"resolved", "rejected"}

\* C1 (as stated): after any sequence of requests, disk mutations and
\* reclamations, every ended response of handle to a request for a file that
\* exists when the request is handled has status 200 and a body
\* byte-identical to the file's on-disk content at that time, streamed or
\* served from the cache.  (Read in the claim's favour: the file does not
\* change while this very request is being handled.)
C1_Original ==
  \A r \in Reqs :
    (Resolved(r) /\ req[r].ended /\ ~req[r].mutated
       /\ req[r].diskAtStart.kind = "file")
      => (req[r].status = 200 /\ BodyIs(req[r].body, req[r].diskAtStart))

\* C1 (amended): a request of handle (not /api/health) for an existing file
\* gets status 200; a cache-hit body is byte-identical to the content last
\* passed to FileCache.set for the path; a streamed body, once the response
\* is ended with no disk mutation of the file during the streaming, is
\* byte-identical to the file's on-disk content.
C1_ServesFile ==
  \A r \in Reqs :
    (Handling(r) /\ req[r].url # HealthUrl /\ req[r].diskAtStart.kind = "file")
      => /\ req[r].status = 200
         /\ req[r].hit =>
              (req[r].ended /\ BodyIs(req[r].body, req[r].setAtStart))
         /\ (~req[r].hit /\ req[r].ended /\ ~req[r].mutated) =>
              BodyIs(req[r].body, req[r].diskAtStart)

\* C1 witness: one response streamed in two chunks and one served from the
\* cache, both complete and both equal to the file.
C1_Witness ==
  \E r1, r2 \in Reqs :
    /\ req[r1].diskAtStart.kind = "file" /\ req[r2].diskAtStart.kind = "file"
    /\ ~req[r1].hit /\ req[r1].ended /\ ~req[r1].mutated
    /\ Len(req[r1].body) = 2 /\ BodyIs(req[r1].body, req[r1].diskAtStart)
    /\ req[r2].hit /\ req[r2].ended
    /\ BodyIs(req[r2].body, req[r2].diskAtStart)

\* C2 (as stated): every request of handle whose resolved path does not
\* exist on disk when it is handled is answered 404, text/plain,
\* "Not Found", also while the path's old content is still cached.
C2_Original ==
  \A r \in Reqs :
    (Resolved(r) /\ Returned(r) /\ req[r].diskAtStart.kind = "absent")
      => /\ req[r].status = 404 /\ req[r].ctype = "text/plain"
         /\ req[r].body = <<TextNotFound>>

\* C2 (amended): every request of handle whose resolved path misses the
\* cache and does not exist on disk at the existence check is answered 404,
\* text/plain, "Not Found", and the response is ended.
C2_NotFound ==
  \A r \in Reqs :
    (Resolved(r) /\ Returned(r) /\ ~req[r].hit
       /\ req[r].diskAtStart.kind = "absent")
      => /\ req[r].status = 404 /\ req[r].ctype = "text/plain"
         /\ req[r].body = <<TextNotFound>> /\ req[r].ended
         /\ req[r].task = "resolved"

\* C2 witness: a 404 for a path that an earlier request streamed and cached,
\* after the file was deleted and the buffer reclaimed.
C2_Witness ==
  \E r1, r2 \in Reqs :
    /\ req[r1].populated /\ req[r2].path = req[r1].path
    /\ req[r2].status = 404 /\ req[r2].body = <<TextNotFound>>
    /\ cache[req[r1].path].state = "reclaimed"

\* C3: every response whose headers are sent carries
\* Strict-Transport-Security: max-age=63072000; includeSubDomains; preload.
C3_HSTS ==
  \A r \in Reqs : req[r].headersSent => req[r].hsts = HSTS_HEADER

\* C4: the counter equals its initial value plus the number of requests
\* handled, modulo 2^32, in every state of every interleaving.
C4_CounterExact == counter = plus(counter0, nStarted)

\* C4 witness: all requests handled, two of them streamed the same path
\* concurrently, and the counter has wrapped to initial + N.
C4_Witness ==
  /\ \A r \in Reqs : Settled(r)
  /\ \E r1, r2 \in Reqs :
       /\ r1 # r2 /\ req[r1].path = req[r2].path
       /\ req[r1].populated /\ req[r2].populated
  /\ counter = plus(counter0, NReq)
  /\ counter0 = NearWrap

\* C5: the k-th request started carries X-Requests-Count = initial + k
\* (modulo 2^32), the value after its own increment, and no two requests
\* carry the same value.
C5_HeaderCount ==
  /\ \A r \in Reqs :
       Started(r) => parseDecimal(req[r].xcount) = plus(counter0, r)
  /\ \A r1, r2 \in Reqs :
       (Started(r1) /\ Started(r2) /\ r1 # r2) => req[r1].xcount # req[r2].xcount

\* C5 witness: two requests in flight at once, the first carrying
\* 4294967295 and the second, which wrapped the counter, carrying 0.
C5_Witness ==
  /\ req[1].task = "yielded" /\ req[2].task = "yielded"
  /\ req[1].xcount = <<4, 2, 9, 4, 9, 6, 7, 2, 9, 5>>
  /\ req[2].xcount = <<0>>

\* C6: a cache hit for a path returns exactly the argument of the latest
\* FileCache.set for that path, which is the result of the latest successful
\* full read of that path and is content of that path.
C6_HitIsLastSet ==
  \A p \in Paths :
    Truthy(get(cache, p)) =>
      /\ get(cache, p) = Live(lastSet[p])
      /\ lastSet[p] = lastFullRead[p]
      /\ lastSet[p] \in Contents(p)

\* C6 witness: a path set twice with different contents whose resident
\* buffer is the later one.
C6_Witness ==
  \E r1, r2 \in Reqs :
    /\ r1 # r2 /\ req[r1].populated /\ req[r2].populated
    /\ req[r1].path = req[r2].path
    /\ Truthy(get(cache, req[r1].path))
    /\ get(cache, req[r1].path).ver # req[r1].diskAtStart.ver
    /\ get(cache, req[r1].path).ver = disk[req[r1].path].ver

\* C7: in handle a request populates the cache only after every chunk of
\* its stream was written and its response ended; a request whose streaming
\* failed or is not complete has not populated the cache.
C7_PopulateAfterStream ==
  \A r \in Reqs :
    /\ req[r].populated =>
         /\ req[r].ended /\ req[r].fd # "open"
         /\ req[r].i = req[r].total /\ Len(req[r].body) = req[r].total
    /\ (req[r].task \in {"yielded", "await_done", "rejected"} \/ ~req[r].ended)
         => ~req[r].populated

\* C7 witness: a request that wrote two chunks, ended and populated the
\* cache, beside a request whose streaming failed and populated nothing.
C7_Witness ==
  \E r1, r2 \in Reqs :
    /\ req[r1].populated /\ Len(req[r1].body) = 2 /\ req[r1].ended
    /\ req[r2].task = "rejected" /\ req[r2].headersSent /\ ~req[r2].populated

\* C8: a failure before any header is committed is answered 500,
\* text/plain, "Internal Server Error"; a failure after the headers were
\* committed is caught and logged.
C8_ErrorResponse ==
  \A r \in Reqs :
    (req[r].task = "rejected" \/ req[r].logged)
      => \/ /\ req[r].status = 500 /\ req[r].ctype = "text/plain"
            /\ req[r].body = <<TextError>>
         \/ /\ req[r].status # 500 /\ req[r].logged
            /\ req[r].task # "rejected"

\* C9: no request's handling promise or streaming task is ever rejected.
C9_NoRejection == \A r \in Reqs : req[r].task # "rejected"

\* C10: writeHead is called at most once per response, never on committed
\* headers, and a 500 is written only to a response with nothing sent.
C10_OneStatusLine ==
  \A r \in Reqs :
    /\ req[r].heads <= 1
    /\ req[r].headersSent <=> req[r].heads = 1
    /\ req[r].status = 500 => req[r].body = <<TextError>>

\* C10 witness: the catch block ran on a response whose 200 headers were
\* committed, and left the single status line alone.
C10_Witness ==
  \E r \in Reqs :
    req[r].logged /\ req[r].heads = 1 /\ req[r].status = 200

\* C11: every file handle opened for a stream is closed on every exit path
\* (full consumption, read error mid-stream, abandonment by the consumer at
\* any point, before the first chunk included): whenever the stream of a
\* request is no longer being consumed, no handle opened for it is open.
C11_HandlesClosed ==
  \A r \in Reqs :
    (running # r
       /\ req[r].task \notin {"yielded", "suspendedStart", "suspendedYield"})
      => req[r].fd # "open"

\* The least n with n * chunkSize >= size.
Ceil(size) ==
  CHOOSE n \in 0..(size \div chunkSize + 1) :
    n * chunkSize >= size /\ (n = 0 \/ (n - 1) * chunkSize < size)

\* The stream of r ran to normal completion over a file nobody touched.
FullyConsumed(r) ==
  /\ req[r].task = "completed" /\ ~req[r].threw /\ ~req[r].abandoned
  /\ ~req[r].mutated /\ req[r].diskAtStart.kind = "file"

\* C12: for a file of size S, readStream yields exactly ceil(S / 65536)
\* chunks, the i-th read at offset i * 65536, each at most 65536 bytes, in
\* ascending offset order, and their concatenation is the file's bytes; a
\* 200 KiB file yields at least 4 chunks and an empty file none.  While the
\* stream is still being consumed the chunks so far are the first ones.
C12_Chunks ==
  \A r \in Reqs :
    LET f == req[r].diskAtStart
        b == req[r].body
    IN /\ (req[r].task = "suspendedYield" /\ ~req[r].mutated
             /\ f.kind = "file")
           => /\ Len(b) = req[r].i /\ Len(b) <= Ceil(f.size)
              /\ \A k \in 1..Len(b) : b[k].off = (k - 1) * 65536
       /\ FullyConsumed(r)
           => /\ Len(b) = Ceil(f.size)
              /\ \A k \in 1..Len(b) :
                   /\ b[k].src = f.ver
                   /\ b[k].off = (k - 1) * 65536
                   /\ b[k].len <= 65536
              /\ BodyIs(b, f)
              /\ (f.size = 200 * 1024 => Len(b) >= 4)
              /\ (f.size = 0 => b = <<>>)

\* A 200 KiB file consumed to the end in four chunks, the last one short.
C12_Witness ==
  \E r \in Reqs :
    /\ FullyConsumed(r) /\ req[r].diskAtStart.size = 200 * 1024
    /\ Len(req[r].body) = 4 /\ req[r].body[4].len = 8192

\* No step of request r remains: its synchronous job has returned and it
\* has no streaming task suspended or about to finish.
Terminal(r) ==
  /\ req[r].pc = "returned" /\ running # r
  /\ req[r].task \in {"none", "resolved", "rejected"}

\* C13: each request is counted and given its X-Requests-Count header
\* before any branch, takes exactly one of the branches cache hit,
\* streaming and not found, and ends in a terminal state whose response has
\* been ended (completed, or failed with status 500): no request is left
\* with nothing more to run and a response that was never ended.
C13_EveryResponseEnded ==
  \A r \in Reqs :
    /\ Started(r) => req[r].xcount # <<>>
    /\ req[r].hit => (req[r].fd = "none" /\ req[r].status = 200)
    /\ req[r].status = 404 => (req[r].fd = "none" /\ ~req[r].hit)
    /\ Terminal(r) => (req[r].ended /\ req[r].status \in {200, 404, 500})

\* The step in which request r is received.
Receives(r) == req[r].pc = "idle" /\ req'[r].pc # "idle"

\* C14: a request for /api/health through handle is answered 200
\* text/plain "OK" in every state, whatever the cache holds and whether or
\* not a file exists at <wwwRoot>/api/health; it increments the counter,
\* carries the X-Requests-Count header of the new value, opens and reads no
\* file and leaves the cache as it was.
C14_Health ==
  [][\A r \in Reqs :
       (Receives(r) /\ req'[r].url = HealthUrl)
         => /\ req'[r].status = 200 /\ req'[r].ctype = "text/plain"
            /\ req'[r].body = <<TextOK>> /\ req'[r].ended
            /\ req'[r].heads = 1 /\ Terminal(r)'
            /\ counter' = plus(counter, 1)
            /\ parseDecimal(req'[r].xcount) = counter'
            /\ req'[r].fd = "none" /\ ~req'[r].populated
            /\ cache' = cache /\ lastSet' = lastSet
            /\ lastFullRead' = lastFullRead]_vars

\* A health request answered OK while a file exists at its path and the
\* cache holds a live buffer of another path.
C14_Witness ==
  \E r \in Reqs :
    /\ req[r].url = HealthUrl /\ req[r].ended /\ req[r].body = <<TextOK>>
    /\ req[r].status = 200 /\ req[r].xcount = <<2>>
    /\ disk[HealthPath].kind = "file"
    /\ cache[IndexPath].state = "live"

\* 2^32 - 1, and the values a Uint32Array cell can hold.
MaxU32 == U32(Limb - 1, Limb - 1)
InRange(c) == c.hi \in 0..(Limb - 1) /\ c.lo \in 0..(Limb - 1)

\* C15: the counter is an unsigned 32-bit value: it is always within
\* [0, 2^32 - 1], the increment made at 2^32 - 1 yields 0 and raises no
\* error, and the request whose increment wrapped the counter carries
\* X-Requests-Count "0" and is handled like any other.
C15_Wrap ==
  /\ InRange(counter) /\ InRange(value(counter))
  /\ \A r \in Reqs :
       Started(r) =>
         /\ InRange(parseDecimal(req[r].xcount))
         /\ plus(counter0, r - 1) = MaxU32
              => /\ req[r].xcount = <<0>>
                 /\ req[r].url \in urls
                 /\ (nStarted = r => counter = Zero)

\* The second request after 2^32 - 2 found the counter at 2^32 - 1, left it
\* at 0, and was answered in full with the header "0".
C15_Witness ==
  /\ counter0 = NearWrap /\ nStarted = 2 /\ counter = Zero
  /\ req[1].xcount = <<4, 2, 9, 4, 9, 6, 7, 2, 9, 5>>
  /\ req[2].xcount = <<0>> /\ req[2].ended /\ req[2].status = 200

\* The order of startup, as a condition on each state.
StartupOrder ==
  /\ boot.genCalls <= 1
  /\ boot.phase = "starting"
       => (boot.genCalls = 0 /\ boot.server = NoServer /\ nStarted = 0)
  /\ boot.phase \in {"generated", "created", "listening"}
       => /\ boot.genCalls = 1
          /\ \E k \in Keys : boot.generated = generate(k)
  /\ boot.phase = "generated" => (boot.server = NoServer /\ nStarted = 0)
  /\ boot.phase \in {"created", "listening"}
       => /\ boot.server.key = boot.generated.privateKey
          /\ boot.server.cert = boot.generated.certificate
  /\ boot.phase = "created" => nStarted = 0
  /\ boot.phase = "failed"
       => /\ boot.genCalls = 1 /\ boot.generated = NoCert
          /\ boot.server = NoServer /\ nStarted = 0

\* C16: at startup CertificateService.generate is called exactly once,
\* before the server is created and before it listens; the server is
\* created with exactly the key and the certificate that call returned; and
\* if generate fails the server is never created, never listens and no
\* request is handled: a failed start stays failed, nothing is retried.
C16_Startup ==
  /\ []StartupOrder
  /\ [][/\ boot.phase = "failed" => boot' = boot
        /\ boot'.genCalls > boot.genCalls => boot.phase = "starting"
        /\ boot'.server # boot.server => boot.phase = "generated"]_vars

\* The server listens with the second possible key pair and has answered a
\* request.
C16_Witness ==
  /\ boot.phase = "listening" /\ boot.genCalls = 1
  /\ boot.generated = generate("keyB")
  /\ boot.server.key = <<"PRIVATE KEY", "keyB">>
  /\ boot.server.cert = <<"CERTIFICATE", "keyB">>
  /\ \E r \in Reqs : req[r].ended

\* C17: resolvePath maps "/" to <wwwRoot>/index.html and any other URL to
\* the join of wwwRoot and the URL, and rejects nothing: "/../secret.txt"
\* resolves to /app/secret.txt, outside wwwRoot, and handle serves that file
\* with status 200 and its content; "/" and "/index.html" resolve to the
\* same path and so share the one cache entry of that path.
C17_Paths ==
  /\ \A r \in Reqs :
       Resolved(r) =>
         /\ req[r].headersSent => req[r].status \in {200, 404}
         /\ req[r].url \in {RootUrl, <<"index.html">>}
              => req[r].path = <<"app", "public", "index.html">>
         /\ req[r].url = <<"..", "secret.txt">>
              => /\ req[r].path = <<"app", "secret.txt">>
                 /\ SubSeq(req[r].path, 1, Len(wwwRoot)) # wwwRoot
                 /\ req[r].diskAtStart = File("s1", 1)
                 /\ Handling(r)
                      => (req[r].status = 200 /\ req[r].ctype = "text/html")
                 /\ req[r].ended => BodyIs(req[r].body, File("s1", 1))
         /\ req[r].populated => cache[req[r].path].state # "none"
  /\ \A r1, r2 \in Reqs :
       (Resolved(r1) /\ Resolved(r2) /\ req[r1].url = RootUrl
          /\ req[r2].url = <<"index.html">>)
         => /\ req[r1].path = req[r2].path
            /\ (r1 < r2 /\ req[r2].hit /\ req[r2].ended /\ req[r1].populated)
                 => /\ req[r2].setAtStart # Absent
                    /\ BodyIs(req[r2].body, req[r2].setAtStart)

\* The file above wwwRoot has been served in full with status 200 and
\* cached under its outside path, next to a request for "/index.html".
C17_Witness ==
  \E r1, r2 \in Reqs :
    /\ req[r1].url = <<"..", "secret.txt">> /\ req[r1].status = 200
    /\ req[r1].ended /\ req[r1].populated
    /\ req[r1].body = <<Seg("s1", 0, 1)>>
    /\ cache[<<"app", "secret.txt">>].state = "live"
    /\ req[r2].url = <<"index.html">> /\ req[r2].status = 200

\* C18: in StaticHttpServer.handleRequest, a request for an existing file
\* that missed the cache populates the cache only after its content was
\* streamed completely: FileCache.set has not happened while chunks of the
\* response are still to be written or before the response was ended.
C18_ServerPopulateAfterStream ==
  \A r \in Reqs :
    (variant = "handleRequest" /\ req[r].populated)
      => /\ req[r].task \notin {"yielded", "await_done"}
         /\ Len(req[r].body) = req[r].total
         /\ req[r].ended

\* Request r found, for its path, an entry that had been set and whose
\* buffer had been reclaimed, and the file on disk.
AfterReclaim(r) ==
  /\ Resolved(r) /\ Handling(r) /\ ~req[r].hit
  /\ req[r].setAtStart.kind = "file" /\ req[r].diskAtStart.kind = "file"

\* What holds in each state for C19.
ReclaimedIsAbsent ==
  /\ \A p \in Paths :
       /\ cache[p].state = "none" <=> lastSet[p] = Absent
       /\ cache[p].state = "reclaimed"
            => (get(cache, p) = NoEntry /\ ~Truthy(get(cache, p)))
  /\ \A r \in Reqs :
       AfterReclaim(r) =>
         /\ req[r].status = 200 /\ req[r].ctype = "text/html"
         /\ req[r].headersSent /\ ~req[r].logged
         /\ req[r].task = "resolved"
              => /\ req[r].ended /\ req[r].populated
                 /\ Len(req[r].body) = req[r].total
                 /\ ~req[r].mutated
                      => BodyIs(req[r].body, req[r].diskAtStart)

\* C19: reclamation is never an error and loses no service: once the buffer
\* set for a path is reclaimed, get returns absent for it, and the next
\* request for the path, its file still on disk, is handled as a miss: it
\* is answered 200 by streaming from disk and, its stream complete, stores
\* the file's content in the cache for that path again.  (Read in the
\* claim's favour: the file stays on disk and readable while it is streamed;
\* a stream cut by a read error stores nothing.)
C19_ReclaimIsMiss ==
  /\ []ReclaimedIsAbsent
  /\ [][\A r \in Reqs :
          (AfterReclaim(r) /\ req[r].task = "await_done"
             /\ req'[r].task = "resolved")
            => /\ cache'[req[r].path] = Live(disk[req[r].path])
               /\ get(cache', req[r].path) = Live(disk[req[r].path])]_vars

\* The first request cached the index file, the buffer was reclaimed, and
\* the second request streamed the file in full and cached it again.
C19_Witness ==
  /\ req[1].populated /\ req[1].path = IndexPath
  /\ AfterReclaim(2) /\ req[2].path = IndexPath
  /\ req[2].task = "resolved" /\ req[2].populated /\ req[2].ended
  /\ req[2].body = <<Seg("i1", 0, 65536), Seg("i1", 65536, 1)>>
  /\ cache[IndexPath] = Live(File("i1", 65537))

\* Request r streams (or streamed) a file that nobody touched meanwhile.
StreamsUnchanged(r) ==
  /\ Resolved(r) /\ Handling(r) /\ ~req[r].hit
  /\ req[r].diskAtStart.kind = "file" /\ ~req[r].mutated

\* C20: with several requests for the same existing, unchanged file in
\* flight at once in handle, interleaved at every await and with one of
\* them populating the cache while another still streams, each response
\* receives that file's chunks in offset order, none lost, duplicated or
\* taken from another request's stream, each request reads through its own
\* handle and position, and an ended response holds the complete content.
C20_NoInterference ==
  \A r \in Reqs :
    StreamsUnchanged(r) =>
      LET f == req[r].diskAtStart
          b == req[r].body
      IN /\ Len(b) = req[r].i /\ Len(b) <= Ceil(f.size)
         /\ \A k \in 1..Len(b) : b[k] = Seg(f.ver, (k - 1) * chunkSize,
                                           Min(chunkSize, f.size - (k - 1) * chunkSize))
         /\ req[r].task = "yielded"
              => /\ req[r].fd = "open"
                 /\ req[r].chunk.src = f.ver
                 /\ req[r].chunk.off = Len(b) * chunkSize
         /\ req[r].fd = "open" => (req[r].task = "yielded" \/ running = r)
         /\ req[r].ended => (Len(b) = Ceil(f.size) /\ BodyIs(b, f))

\* Two requests for the index file were streaming at once; the first has
\* ended and populated the cache while the second, started before that,
\* has written its first chunk and holds its second.
C20_Witness ==
  /\ StreamsUnchanged(1) /\ StreamsUnchanged(2)
  /\ req[1].path = IndexPath /\ req[2].path = IndexPath
  /\ req[1].ended /\ req[1].populated /\ cache[IndexPath].state = "live"
  /\ req[2].setAtStart = Absent /\ req[2].task = "yielded"
  /\ req[2].body = <<Seg("i1", 0, 65536)>>
  /\ req[2].chunk = Seg("i1", 65536, 1)

\* C21: in the cache-hit branch the handler calls FileCache.get twice, once
\* to test and once for the body.  Whenever the test succeeded, the buffer
\* is still there for the second call, and a response sent as a cache hit
\* has status 200, text/html and the cached content as its body, never an
\* absent body left by a reclamation between the two calls.
C21_HitBodyIsCached ==
  \A r \in Reqs :
    /\ req[r].pc = "hit"
         => /\ running = r /\ req[r].path \in keptAlive
            /\ req[r].setAtStart.kind = "file"
            /\ get(cache, req[r].path) = Live(req[r].setAtStart)
    /\ req[r].hit
         => /\ req[r].status = 200 /\ req[r].ctype = "text/html"
            /\ req[r].ended /\ req[r].heads = 1
            /\ req[r].setAtStart.kind = "file"
            /\ req[r].body # <<>>
            /\ req[r].body = <<BufferSeg(Live(req[r].setAtStart))>>

\* A request was answered from the cache with the whole cached content, and
\* the buffer was reclaimed as soon as its job had ended.
C21_Witness ==
  \E r \in Reqs :
    /\ req[r].hit /\ req[r].ended /\ req[r].status = 200
    /\ req[r].body = <<Seg("i1", 0, 65537)>>
    /\ cache[req[r].path] = Reclaimed

\* The step is the population step of request r: its stream is complete,
\* its response ends, and the file it streamed is read and stored.
Populates(r) ==
  /\ req[r].task = "await_done" /\ req'[r].task = "resolved"
  /\ ~req[r].populated /\ req'[r].populated
  /\ req[r].status = 200 /\ ~req[r].hit /\ req[r].diskAtStart.kind # "absent"
  /\ Len(req[r].body) = req[r].total /\ req'[r].ended

\* C22: the only handler step that changes FileCache is the population
\* step of a request that streamed an existing file, and it changes the
\* entry of that request's path only; steps of requests answered by a cache
\* hit, by 404 or by /api/health leave every entry as it was.
C22_CacheFrame ==
  [][/\ (req' # req /\ cache' # cache)
          => \E r \in Reqs :
               /\ Populates(r)
               /\ cache'[req[r].path] = Live(disk[req[r].path])
               /\ \A q \in Paths \ {req[r].path} : cache'[q] = cache[q]
     /\ \A r \in Reqs :
          (req'[r] # req[r]
             /\ (req'[r].hit \/ req'[r].pc = "hit" \/ req'[r].status = 404
                   \/ (Started(r)' /\ req'[r].url = HealthUrl)))
            => cache' = cache]_vars

\* Both cacheable paths hold their own content: the index file was stored
\* after the outside file, whose entry is as it was stored.
C22_Witness ==
  \E r1, r2 \in Reqs :
    /\ r1 < r2 /\ req[r1].populated /\ req[r2].populated
    /\ req[r1].path = SecretPath /\ req[r2].path = IndexPath
    /\ req[r2].setAtStart = Absent
    /\ cache[SecretPath] = Live(File("s1", 1))
    /\ cache[IndexPath] = Live(File("i1", 65537))

====
